---------------------------- MODULE Spec2Model ----------------------------
(***************************************************************************)
(* Model of the ethena-poc bridge-and-swap script.                         *)
(*                                                                         *)
(*   src/src/utils/transactions.ts  generateApproveCallData,               *)
(*                                  generateExchangeCallData,              *)
(*                                  calculateAdjustedMinOutput, getMinDy   *)
(*   src/src/index.ts               executeSwap (the driver)               *)
(*                                                                         *)
(* bigint values are modelled by TLC integers; every product is formed     *)
(* limb-wise so that no intermediate value leaves TLC's integer range.     *)
(* Calldata is a sequence of bytes: the 4-byte selector followed by one    *)
(* 32-byte big-endian word per static argument, as encodeFunctionData      *)
(* lays it out.                                                            *)
(***************************************************************************)
EXTENDS Integers, Sequences, FiniteSets, TLC

VARIABLES
    adj,          \* one call of calculateAdjustedMinOutput: its arguments and result
    approveCalls, \* the calls of generateApproveCallData made so far, in order
    quoter,       \* the get_dy queries the chain client has received, in order
    invocations,  \* the calls of generateExchangeCallData made so far, in order
    drv           \* executeSwap: its position, its locals and its outcome

vars == <<adj, approveCalls, quoter, invocations, drv>>

(***************************************************************************)
(* Bounds of the model.                                                    *)
(***************************************************************************)
MaxSmallAmount == 3
MaxApproveCalls == 2
MaxInvocations == 2

(***************************************************************************)
(* Program constants.                                                      *)
(***************************************************************************)
BpsDenominator == 10000
DefaultSlippageBps == 3
InputAmount == 100000000

Abs(x) == IF x < 0 THEN -x ELSE x

(***************************************************************************)
(* bigint (a * m) / d with d > 0.  The quotient of bigint division is      *)
(* truncated toward zero.  a = qa*d + ra gives a*m = qa*m*d + ra*m, hence  *)
(* |a*m| / d = qa*m + (ra*m) / d for the magnitudes.                       *)
(***************************************************************************)
BigIntMulDiv(a, m, d) ==
    LET ua == Abs(a)
        um == Abs(m)
        mag == (ua \div d) * um + ((ua % d) * um) \div d
    IN  IF (a < 0) # (m < 0) THEN -mag ELSE mag

(***************************************************************************)
(* Mutants of calculateAdjustedMinOutput.                                  *)
(***************************************************************************)
\* divides before it multiplies
calculateAdjustedMinOutput_DivFirst(amount, slippageBps) ==
    BigIntMulDiv(amount, 1, BpsDenominator) * (BpsDenominator - slippageBps)

\* adds the tolerance instead of taking it off
calculateAdjustedMinOutput_Plus(amount, slippageBps) ==
    BigIntMulDiv(amount, BpsDenominator + slippageBps, BpsDenominator)

\* return (amount * (10000n - slippageBps)) / 10000n;
calculateAdjustedMinOutput(amount, slippageBps) ==
    BigIntMulDiv(amount, BpsDenominator - slippageBps, BpsDenominator)

(***************************************************************************)
(* Inputs of the calculateAdjustedMinOutput harness.                       *)
(***************************************************************************)
Amounts ==
    (0 .. MaxSmallAmount)
        \cup {100, 3333, 9999, 10000, 10001, 1000000, 99000000, 100000000}

SlippageValues == {0, 1, 3, 5000, 9999, 10000, 10001, 20000}

AdjIdle == [pc |-> "idle", amount |-> 0, slippageBps |-> 0, omitted |-> FALSE,
            threw |-> FALSE, result |-> 0]

AdjInit ==
    /\ adj \in [pc : {"ready"}, amount : Amounts, slippageBps : SlippageValues,
                omitted : {FALSE}, threw : {FALSE}, result : {0}]
    /\ approveCalls = <<>>
    /\ quoter = <<>>
    /\ invocations = <<>>
    /\ drv = [pc |-> "idle"]

\* calculateAdjustedMinOutput(amount, slippageBps)
CallAdjust ==
    /\ adj.pc = "ready"
    /\ adj' = [adj EXCEPT !.pc = "returned",
                          !.result = calculateAdjustedMinOutput(adj.amount, adj.slippageBps)]
    /\ UNCHANGED <<approveCalls, quoter, invocations, drv>>

\* calculateAdjustedMinOutput(amount): slippageBps takes its default
CallAdjustDefault ==
    /\ adj.pc = "ready"
    /\ adj' = [adj EXCEPT !.pc = "returned",
                          !.omitted = TRUE,
                          !.slippageBps = DefaultSlippageBps,
                          !.result = calculateAdjustedMinOutput(adj.amount, DefaultSlippageBps)]
    /\ UNCHANGED <<approveCalls, quoter, invocations, drv>>

AdjNext == CallAdjust \/ CallAdjustDefault

SpecAdjust == AdjInit /\ [][AdjNext]_vars


(***************************************************************************)
(* r = floor(a * m / d) for a, m >= 0 and d > 0, by the remainder          *)
(* criterion 0 <= a*m - r*d < d.  With a = qa*d + ra and k = r - qa*m the  *)
(* remainder is ra*m - k*d.                                                *)
(***************************************************************************)
IsFloorQuotient(r, a, m, d) ==
    LET k == r - (a \div d) * m
    IN  /\ k \in 0 .. m
        /\ ((a % d) * m - k * d) \in 0 .. (d - 1)

ValidSlippage(bps) == bps \in 0 .. (BpsDenominator - 1)

\* C1: a call of calculateAdjustedMinOutput with slippageBps >= 10000 fails with
\* an InvalidParameter error, and returns no value.
C1_OutOfRangeSlippageThrows ==
    (adj.pc = "returned" /\ adj.slippageBps >= BpsDenominator) => adj.threw

\* C2: for amount >= 0 and slippageBps in [0, 9999] the result is
\* floor(amount * (10000 - slippageBps) / 10000); adjust(1000000, 3) = 999700,
\* adjust(100, 9999) = 0, and an omitted slippageBps counts as 3.
C2_AdjustIsFloor ==
    (adj.pc = "returned" /\ adj.amount >= 0) =>
        /\ ~adj.threw
        /\ (~adj.omitted /\ ValidSlippage(adj.slippageBps)) =>
               IsFloorQuotient(adj.result, adj.amount,
                               10000 - adj.slippageBps, 10000)
        /\ (~adj.omitted /\ adj.amount = 1000000 /\ adj.slippageBps = 3) =>
               adj.result = 999700
        /\ (~adj.omitted /\ adj.amount = 100 /\ adj.slippageBps = 9999) =>
               adj.result = 0
        /\ adj.omitted => IsFloorQuotient(adj.result, adj.amount, 9997, 10000)

C2_Witness ==
    /\ adj.pc = "returned"
    /\ ~adj.omitted
    /\ adj.amount = 1000000
    /\ adj.slippageBps = 3
    /\ adj.result = 999700

\* C3: for amount >= 0 and slippageBps in [0, 9999]: adjust(a, bps) <= a,
\* adjust(a, 0) = a and adjust(0, bps) = 0.
C3_AdjustBounds ==
    (adj.pc = "returned" /\ adj.amount >= 0 /\ ValidSlippage(adj.slippageBps)) =>
        /\ adj.result <= adj.amount
        /\ (adj.slippageBps = 0) => (adj.result = adj.amount)
        /\ (adj.amount = 0) => (adj.result = 0)

C3_Witness ==
    /\ adj.pc = "returned"
    /\ adj.amount = 10001
    /\ adj.slippageBps = 5000
    /\ adj.result = 5000


(***************************************************************************)
(* Addresses are sequences of bytes; a well-formed one has 20 of them (the *)
(* 40 hex digits isAddress asks for).  The letter case of the hex text,    *)
(* and with it the checksum, is not modelled.                              *)
(***************************************************************************)
Byte == 0 .. 255

\* curveParams.contractAddress 0x02950460E2b9529D0E00284A5fA2d7bDF3fA4d72
CurvePool ==
    <<2, 149, 4, 96, 226, 185, 82, 157, 14, 0,
      40, 74, 95, 162, 215, 189, 243, 250, 77, 114>>

\* route.outputToken 0xA0b86991c6218b36c1d19D4a2e9Eb0cE3606eB48
OutputToken ==
    <<160, 184, 105, 145, 198, 33, 139, 54, 193, 209,
      157, 74, 46, 158, 176, 206, 54, 6, 235, 72>>

\* an account address, as privateKeyToAccount derives one
UserAddress ==
    <<17, 34, 51, 68, 85, 102, 119, 136, 153, 170,
      187, 204, 221, 238, 255, 0, 1, 2, 3, 4>>

\* a string that is no address: too short
MalformedAddress == <<222, 173, 190, 239>>

isAddress(a) == Len(a) = 20 /\ \A k \in 1 .. Len(a) : a[k] \in Byte

\* keccak256 of the signature, first four bytes
ApproveSelector == <<9, 94, 167, 179>>       \* approve(address,uint256)
ExchangeSelector == <<221, 193, 245, 157>>   \* exchange(int128,int128,uint256,uint256,address)
GetDySelector == <<94, 13, 68, 63>>          \* get_dy(int128,int128,uint256)

Zeros(n) == [k \in 1 .. n |-> 0]

\* the n low bytes of v >= 0, big-endian
RECURSIVE numberToBytes(_, _)
numberToBytes(v, n) ==
    IF n = 0 THEN <<>> ELSE Append(numberToBytes(v \div 256, n - 1), v % 256)

Complement(w) == [k \in 1 .. Len(w) |-> 255 - w[k]]

(***************************************************************************)
(* encodeAbiParameters on static types.  A parameter is [type, value].     *)
(* encodeAddress rejects what isAddress rejects; encodeNumber rejects a    *)
(* value outside the type's range (every modelled value is below 2^31, so  *)
(* only the lower end of uint256 can be missed).  A negative int128 is its *)
(* two's complement on 256 bits: the complement of -v - 1.                 *)
(***************************************************************************)
CanEncodeParam(p) ==
    CASE p.type = "address" -> isAddress(p.value)
      [] p.type = "uint256" -> p.value >= 0
      [] p.type = "int128" -> TRUE

EncodeError(p) ==
    IF p.type = "address" THEN "InvalidAddressError" ELSE "IntegerOutOfRangeError"

encodeParam(p) ==
    CASE p.type = "address" -> Zeros(12) \o p.value
      [] p.type = "uint256" -> numberToBytes(p.value, 32)
      [] p.type = "int128" ->
            IF p.value < 0
            THEN Complement(numberToBytes(-p.value - 1, 32))
            ELSE numberToBytes(p.value, 32)

RECURSIVE encodeParams(_)
encodeParams(params) ==
    IF params = <<>> THEN <<>>
    ELSE encodeParam(Head(params)) \o encodeParams(Tail(params))

\* what a call gives back: a value, or the error it threw
Returned(v) == [threw |-> FALSE, error |-> "", value |-> v]
Threw(e) == [threw |-> TRUE, error |-> e, value |-> <<>>]

\* encodeFunctionData: the selector, then the encoded arguments; the first
\* argument that cannot be encoded throws
encodeFunctionData(selector, params) ==
    LET bad == {k \in 1 .. Len(params) : ~CanEncodeParam(params[k])}
    IN  IF bad = {}
        THEN Returned(selector \o encodeParams(params))
        ELSE Threw(EncodeError(params[CHOOSE k \in bad : \A l \in bad : k <= l]))

Addr(a) == [type |-> "address", value |-> a]
Uint256(v) == [type |-> "uint256", value |-> v]
Int128(v) == [type |-> "int128", value |-> v]

(***************************************************************************)
(* Mutant of generateApproveCallData: encodes the amount of the first      *)
(* build whatever amount it is given.                                      *)
(***************************************************************************)
generateApproveCallData_Stale(spender, amount) ==
    encodeFunctionData(ApproveSelector, <<Addr(spender), Uint256(InputAmount)>>)

\* encodeFunctionData({abi: [approve(address spender, uint256 value)],
\*                     args: [spender, amount]})
generateApproveCallData(spender, amount) ==
    encodeFunctionData(ApproveSelector, <<Addr(spender), Uint256(amount)>>)

(***************************************************************************)
(* The generateApproveCallData harness: up to MaxApproveCalls calls, one   *)
(* after the other, each with any spender and amount.                      *)
(***************************************************************************)
SpenderInputs == {CurvePool, OutputToken, MalformedAddress}
ApproveAmounts == {-1, 0, 100, 250, InputAmount}

ApproveInit ==
    /\ adj = AdjIdle
    /\ approveCalls = <<>>
    /\ quoter = <<>>
    /\ invocations = <<>>
    /\ drv = [pc |-> "idle"]

CallApprove ==
    /\ Len(approveCalls) < MaxApproveCalls
    /\ \E spender \in SpenderInputs, amount \in ApproveAmounts :
          approveCalls' = Append(approveCalls,
              [spender |-> spender, amount |-> amount,
               out |-> generateApproveCallData(spender, amount)])
    /\ UNCHANGED <<adj, quoter, invocations, drv>>

ApproveNext == CallApprove

SpecApprove == ApproveInit /\ [][ApproveNext]_vars

(***************************************************************************)
(* ABI decoding, for the round trips.  A word decodes to a number when it  *)
(* is one the model can hold (below 2^31, or above -2^31 for a signed      *)
(* type).                                                                  *)
(***************************************************************************)
Word(data, n) == SubSeq(data, 4 + 32 * (n - 1) + 1, 4 + 32 * n)

WordIsSmall(w) == (\A k \in 1 .. 28 : w[k] = 0) /\ w[29] < 128

WordToNat(w) == ((w[29] * 256 + w[30]) * 256 + w[31]) * 256 + w[32]

NotANumber == [fits |-> FALSE, value |-> 0]

decodeUint(w) ==
    IF WordIsSmall(w) THEN [fits |-> TRUE, value |-> WordToNat(w)] ELSE NotANumber

decodeInt(w) ==
    IF WordIsSmall(w) THEN [fits |-> TRUE, value |-> WordToNat(w)]
    ELSE IF WordIsSmall(Complement(w))
         THEN [fits |-> TRUE, value |-> -WordToNat(Complement(w)) - 1]
         ELSE NotANumber

decodeAddress(w) ==
    IF \A k \in 1 .. 12 : w[k] = 0
    THEN [ok |-> TRUE, value |-> SubSeq(w, 13, 32)]
    ELSE [ok |-> FALSE, value |-> <<>>]

IsCallOf(data, selector, nArgs) ==
    /\ Len(data) = 4 + 32 * nArgs
    /\ SubSeq(data, 1, 4) = selector

\* data is the call approve(spender, amount)
DecodesToApprove(data, spender, amount) ==
    /\ IsCallOf(data, ApproveSelector, 2)
    /\ decodeAddress(Word(data, 1)) = [ok |-> TRUE, value |-> spender]
    /\ decodeUint(Word(data, 2)) = [fits |-> TRUE, value |-> amount]

WellFormedApprove(c) == isAddress(c.spender) /\ c.amount >= 0

\* C7: generateApproveCallData throws nothing on well-formed input, its output
\* decodes back to the (spender, amount) it was given whatever calls came before,
\* equal inputs give equal outputs, and the same spender with two different
\* amounts gives two different outputs.
C7_ApproveRoundTrip ==
    \A k \in 1 .. Len(approveCalls) :
        LET c == approveCalls[k]
        IN  WellFormedApprove(c) =>
              /\ ~c.out.threw
              /\ DecodesToApprove(c.out.value, c.spender, c.amount)
              /\ \A l \in 1 .. Len(approveCalls) :
                    LET e == approveCalls[l]
                    IN  (WellFormedApprove(e) /\ e.spender = c.spender) =>
                            ((e.amount = c.amount) <=> (e.out.value = c.out.value))

C7_Witness ==
    /\ Len(approveCalls) >= 2
    /\ approveCalls[1].spender = CurvePool
    /\ approveCalls[2].spender = CurvePool
    /\ approveCalls[1].amount = 100
    /\ approveCalls[2].amount = 250
    /\ DecodesToApprove(approveCalls[1].out.value, CurvePool, 100)
    /\ DecodesToApprove(approveCalls[2].out.value, CurvePool, 250)
    /\ approveCalls[1].out.value # approveCalls[2].out.value


(***************************************************************************)
(* generateExchangeCallData and getMinDy.                                  *)
(*                                                                         *)
(* quoter is what the chain has seen: one entry per eth_call, with the     *)
(* contract called, the calldata sent, the invocation that sent it (by)    *)
(* and the answer (state, value).  An invocation of                        *)
(* generateExchangeCallData is its arguments, the index of the query it    *)
(* awaits (0: none) and, once settled, what its promise settled with.      *)
(***************************************************************************)
Pending == [threw |-> FALSE, error |-> "", value |-> <<>>]

\* readContract up to the network: the get_dy calldata is encoded and the
\* contract address is checked before anything is sent
getMinDyRequest(swapContractAddress, i, j, dx) ==
    LET data == encodeFunctionData(GetDySelector, <<Int128(i), Int128(j), Uint256(dx)>>)
    IN  IF data.threw THEN data
        ELSE IF ~isAddress(swapContractAddress) THEN Threw("InvalidAddressError")
        ELSE data

\* mutant: the answer to the first query ever made is used again
quoteAwaited_First(quoterLog, inv) == quoterLog[1].value

\* const minDy = await getMinDy(swapContractAddress, i, j, _dx)
quoteAwaited(quoterLog, inv) == quoterLog[inv.query].value

\* mutant: the raw quote is passed as _min_dy
exchangeOnQuote_Raw(inv, minDy) ==
    encodeFunctionData(ExchangeSelector,
        <<Int128(inv.i), Int128(inv.j), Uint256(inv.dx), Uint256(minDy),
          Addr(inv.receiver)>>)

\* the rest of generateExchangeCallData once the quote is in
exchangeOnQuote(inv, minDy) ==
    LET adjustedMinDy == calculateAdjustedMinOutput(minDy, DefaultSlippageBps)
    IN  encodeFunctionData(ExchangeSelector,
            <<Int128(inv.i), Int128(inv.j), Uint256(inv.dx), Uint256(adjustedMinDy),
              Addr(inv.receiver)>>)

\* mutant: a failed quote is swallowed and the call is built with no minimum
exchangeOnQuoteFailure_NoMinimum(inv, error) == exchangeOnQuote_Raw(inv, 0)

\* await getMinDy(...) rejects: nothing catches it
exchangeOnQuoteFailure(inv, error) == Threw(error)

\* generateExchangeCallData(swapContractAddress, i, j, _dx, _receiver) up to
\* its await
GenStart(pool, i, j, dx, receiver) ==
    LET req == getMinDyRequest(pool, i, j, dx)
        args == [pool |-> pool, i |-> i, j |-> j, dx |-> dx, receiver |-> receiver]
        k == Len(invocations) + 1
    IN  IF req.threw
        THEN /\ invocations' = Append(invocations,
                    [args |-> args, pc |-> "settled", query |-> 0, out |-> req])
             /\ quoter' = quoter
        ELSE /\ quoter' = Append(quoter,
                    [by |-> k, to |-> pool, data |-> req.value,
                     state |-> "pending", value |-> 0])
             /\ invocations' = Append(invocations,
                    [args |-> args, pc |-> "awaiting", query |-> Len(quoter) + 1,
                     out |-> Pending])

QuoteReplies == {1, 3333, 99000000}

\* get_dy answers q: getMinDy resolves and generateExchangeCallData goes on
QuoteReturns ==
    /\ \E k \in 1 .. Len(invocations), q \in QuoteReplies :
          /\ invocations[k].pc = "awaiting"
          /\ quoter' = [quoter EXCEPT ![invocations[k].query].state = "ok",
                                      ![invocations[k].query].value = q]
          /\ invocations' = [invocations EXCEPT
                ![k].pc = "settled",
                ![k].out = exchangeOnQuote(invocations[k].args,
                                           quoteAwaited(quoter', invocations[k]))]
    /\ UNCHANGED <<adj, approveCalls, drv>>

\* the query fails (network, timeout, revert, undecodable answer)
QuoteFails ==
    /\ \E k \in 1 .. Len(invocations) :
          /\ invocations[k].pc = "awaiting"
          /\ quoter' = [quoter EXCEPT ![invocations[k].query].state = "failed"]
          /\ invocations' = [invocations EXCEPT
                ![k].pc = "settled",
                ![k].out = exchangeOnQuoteFailure(invocations[k].args,
                                                  "ContractFunctionExecutionError")]
    /\ UNCHANGED <<adj, approveCalls, drv>>

(***************************************************************************)
(* The generateExchangeCallData harness: up to MaxInvocations calls, which *)
(* may overlap, with these arguments.                                      *)
(***************************************************************************)
ExchangeInputs ==
    { <<CurvePool, 1, 0, InputAmount, UserAddress>>,
      <<CurvePool, 1, 0, 100, UserAddress>>,
      <<CurvePool, -1, 0, 100, OutputToken>>,
      <<CurvePool, 1, 0, -1, UserAddress>>,
      <<MalformedAddress, 1, 0, 100, UserAddress>>,
      <<CurvePool, 1, 0, 100, MalformedAddress>> }

ExchangeInit ==
    /\ adj = AdjIdle
    /\ approveCalls = <<>>
    /\ quoter = <<>>
    /\ invocations = <<>>
    /\ drv = [pc |-> "idle"]

Invoke ==
    /\ Len(invocations) < MaxInvocations
    /\ \E a \in ExchangeInputs : GenStart(a[1], a[2], a[3], a[4], a[5])
    /\ UNCHANGED <<adj, approveCalls, drv>>

ExchangeNext == Invoke \/ QuoteReturns \/ QuoteFails

SpecExchange == ExchangeInit /\ [][ExchangeNext]_vars


\* data is the call exchange(i, j, dx, minDy, receiver)
DecodesToExchange(data, i, j, dx, minDy, receiver) ==
    /\ IsCallOf(data, ExchangeSelector, 5)
    /\ decodeInt(Word(data, 1)) = [fits |-> TRUE, value |-> i]
    /\ decodeInt(Word(data, 2)) = [fits |-> TRUE, value |-> j]
    /\ decodeUint(Word(data, 3)) = [fits |-> TRUE, value |-> dx]
    /\ decodeUint(Word(data, 4)) = [fits |-> TRUE, value |-> minDy]
    /\ decodeAddress(Word(data, 5)) = [ok |-> TRUE, value |-> receiver]

\* data is the call get_dy(i, j, dx)
DecodesToGetDy(data, i, j, dx) ==
    /\ IsCallOf(data, GetDySelector, 3)
    /\ decodeInt(Word(data, 1)) = [fits |-> TRUE, value |-> i]
    /\ decodeInt(Word(data, 2)) = [fits |-> TRUE, value |-> j]
    /\ decodeUint(Word(data, 3)) = [fits |-> TRUE, value |-> dx]

\* the _min_dy word of an exchange call
MinDyOf(data) == decodeUint(Word(data, 4))

Answered(inv) == inv.query # 0 /\ quoter[inv.query].state = "ok"

QueriesBy(k) == {n \in 1 .. Len(quoter) : quoter[n].by = k}

\* C4: when get_dy answers q, generateExchangeCallData gives the call
\* exchange(i, j, dx, floor(q * 9997 / 10000), receiver): i, j, dx and receiver
\* as given; dx = 100000000 and q = 99000000 give _min_dy = 98970300.
C4_ExchangeArguments ==
    \A k \in 1 .. Len(invocations) :
        LET inv == invocations[k]
            a == inv.args
        IN  (inv.pc = "settled" /\ Answered(inv) /\ isAddress(a.receiver)) =>
              /\ ~inv.out.threw
              /\ IsCallOf(inv.out.value, ExchangeSelector, 5)
              /\ MinDyOf(inv.out.value).fits
              /\ DecodesToExchange(inv.out.value, a.i, a.j, a.dx,
                                   MinDyOf(inv.out.value).value, a.receiver)
              /\ IsFloorQuotient(MinDyOf(inv.out.value).value,
                                 quoter[inv.query].value, 9997, 10000)
              /\ (a.dx = 100000000 /\ quoter[inv.query].value = 99000000) =>
                     MinDyOf(inv.out.value).value = 98970300

C4_Witness ==
    \E k \in 1 .. Len(invocations) :
        /\ invocations[k].pc = "settled"
        /\ Answered(invocations[k])
        /\ quoter[invocations[k].query].value = 99000000
        /\ DecodesToExchange(invocations[k].out.value, 1, 0, 100000000, 98970300,
                             UserAddress)

\* C5: every invocation that reaches the network sends one get_dy query of its
\* own, for its own (i, j, dx) and pool; the chain has seen one query per such
\* invocation; and the _min_dy a result carries is the discounted answer to the
\* invocation's own query, never to another one's.
C5_FreshQuotePerInvocation ==
    /\ Len(quoter) =
         Cardinality({k \in 1 .. Len(invocations) :
                        invocations[k].args.dx >= 0 /\ isAddress(invocations[k].args.pool)})
    /\ \A k \in 1 .. Len(invocations) :
          LET inv == invocations[k]
              a == inv.args
          IN  /\ (inv.query = 0) => (QueriesBy(k) = {})
              /\ (inv.query # 0) =>
                    /\ QueriesBy(k) = {inv.query}
                    /\ quoter[inv.query].to = a.pool
                    /\ DecodesToGetDy(quoter[inv.query].data, a.i, a.j, a.dx)
              /\ (inv.pc = "settled" /\ ~inv.out.threw) =>
                    /\ Answered(inv)
                    /\ MinDyOf(inv.out.value).fits
                    /\ IsFloorQuotient(MinDyOf(inv.out.value).value,
                                       quoter[inv.query].value, 9997, 10000)

C5_Witness ==
    /\ Len(invocations) >= 2
    /\ Len(quoter) = 2
    /\ invocations[1].args.dx # invocations[2].args.dx
    /\ invocations[1].pc = "settled" /\ ~invocations[1].out.threw
    /\ invocations[2].pc = "settled" /\ ~invocations[2].out.threw
    /\ quoter[invocations[1].query].value # quoter[invocations[2].query].value
    /\ MinDyOf(invocations[1].out.value) # MinDyOf(invocations[2].out.value)

QueryFailed(inv) == inv.query # 0 /\ quoter[inv.query].state = "failed"

\* C6: when its get_dy query fails, generateExchangeCallData rejects and gives no
\* calldata, and that one query is the only one it sent.
C6_FailedQuoteRejects ==
    \A k \in 1 .. Len(invocations) :
        LET inv == invocations[k]
        IN  QueryFailed(inv) =>
              /\ inv.pc = "settled"
              /\ inv.out.threw
              /\ inv.out.value = <<>>
              /\ QueriesBy(k) = {inv.query}

C6_Witness ==
    /\ Len(invocations) >= 2
    /\ invocations[1].pc = "settled" /\ ~invocations[1].out.threw
    /\ QueryFailed(invocations[2])
    /\ invocations[2].out.threw

InvalidInputs(a) == a.dx < 0 \/ ~isAddress(a.pool) \/ ~isAddress(a.receiver)

\* C8: with an invalid input (a negative amount, a malformed pool or receiver
\* address) generateExchangeCallData fails before any I/O: no get_dy query is
\* sent and no calldata is produced.
C8_InvalidInputFailsBeforeIO ==
    \A k \in 1 .. Len(invocations) :
        InvalidInputs(invocations[k].args) =>
            /\ invocations[k].query = 0
            /\ QueriesBy(k) = {}
            /\ invocations[k].out.value = <<>>


(***************************************************************************)
(* executeSwap, the driver.                                                *)
(*                                                                         *)
(* drv.pc is the statement executeSwap is at, or awaits.  The two actions  *)
(* of the cross-chain message are drv.approve and drv.exchange (their      *)
(* callData).  The first call of generateExchangeCallData is invocation 1, *)
(* the one its update closure makes is invocation 2.  getQuote fetches the *)
(* output amount and calls each action's update with it before it          *)
(* resolves; the order of the two updates is left open.                    *)
(***************************************************************************)
CurveI == 1
CurveJ == 0

PrivateKeys == {"unset", "invalid", "valid"}
Balances == {0, InputAmount - 1, InputAmount, InputAmount + 1}
OutputAmounts == {100, 99990000, InputAmount}

DrvStart(key, url) ==
    [pc |-> "start", privateKey |-> key, rpcUrlSet |-> url, balance |-> 0,
     approve |-> <<>>, exchange |-> <<>>, outputAmount |-> 0,
     updatedApprove |-> FALSE, updatedExchange |-> "no", quoteOk |-> FALSE,
     executeQuoteCalled |-> FALSE, failedAt |-> "", thrown |-> FALSE,
     logged |-> FALSE]

Init ==
    /\ adj = AdjIdle
    /\ approveCalls = <<>>
    /\ quoter = <<>>
    /\ invocations = <<>>
    /\ \E key \in PrivateKeys, url \in BOOLEAN : drv = DrvStart(key, url)

\* catch (error) { logger.error(...); throw error; }
Catch(d, stage) ==
    [d EXCEPT !.pc = "failed", !.failedAt = stage, !.logged = TRUE, !.thrown = TRUE]

\* if (!process.env.PRIVATE_KEY || !process.env.RPC_URL) throw ..., outside the try
CheckEnv ==
    /\ drv.pc = "start"
    /\ drv' = IF drv.privateKey = "unset" \/ ~drv.rpcUrlSet
              THEN [drv EXCEPT !.pc = "failed", !.failedAt = "env", !.thrown = TRUE]
              ELSE [drv EXCEPT !.pc = "createWallet"]
    /\ UNCHANGED <<adj, approveCalls, quoter, invocations>>

\* createUserWallet: privateKeyToAccount throws on a key that is none
CreateWallet ==
    /\ drv.pc = "createWallet"
    /\ drv' = IF drv.privateKey = "valid"
              THEN [drv EXCEPT !.pc = "getBalance"]
              ELSE Catch(drv, "wallet")
    /\ UNCHANGED <<adj, approveCalls, quoter, invocations>>

\* mutant: any balance above zero passes
hasSufficientBalance_NonZero(balance) == balance > 0

\* if (balance < inputAmount) throw ...
hasSufficientBalance(balance) == ~(balance < InputAmount)

\* await getBalance(...) resolves, and the balance is checked
GetBalanceReturns ==
    /\ drv.pc = "getBalance"
    /\ \E b \in Balances :
          drv' = IF hasSufficientBalance(b)
                 THEN [drv EXCEPT !.balance = b, !.pc = "buildMessage"]
                 ELSE Catch([drv EXCEPT !.balance = b], "balance")
    /\ UNCHANGED <<adj, approveCalls, quoter, invocations>>

\* await getBalance(...) rejects
GetBalanceRejects ==
    /\ drv.pc = "getBalance"
    /\ drv' = Catch(drv, "getBalance")
    /\ UNCHANGED <<adj, approveCalls, quoter, invocations>>

\* approveAndSwapMessage: the approve action's callData, then the call of
\* generateExchangeCallData that the exchange action's callData awaits
BuildMessage ==
    /\ drv.pc = "buildMessage"
    /\ LET approve == generateApproveCallData(CurvePool, InputAmount)
       IN  IF approve.threw
           THEN /\ drv' = Catch(drv, "approveCalldata")
                /\ UNCHANGED <<quoter, invocations>>
           ELSE /\ drv' = [drv EXCEPT !.approve = approve.value, !.pc = "awaitExchange"]
                /\ GenStart(CurvePool, CurveI, CurveJ, InputAmount, UserAddress)
    /\ UNCHANGED <<adj, approveCalls>>

\* the awaited generateExchangeCallData has settled
ExchangeBuilt ==
    /\ drv.pc = "awaitExchange"
    /\ invocations[1].pc = "settled"
    /\ drv' = IF invocations[1].out.threw
              THEN Catch(drv, "exchangeCalldata")
              ELSE [drv EXCEPT !.exchange = invocations[1].out.value, !.pc = "getQuote"]
    /\ UNCHANGED <<adj, approveCalls, quoter, invocations>>

\* client.getQuote: the bridge's output amount is known
GetQuoteOutputAmount ==
    /\ drv.pc = "getQuote"
    /\ \E x \in OutputAmounts : drv' = [drv EXCEPT !.outputAmount = x, !.pc = "updating"]
    /\ UNCHANGED <<adj, approveCalls, quoter, invocations>>

\* client.getQuote rejects (the bridge API fails)
GetQuoteRejects ==
    /\ drv.pc \in {"getQuote", "finalQuote"}
    /\ drv' = Catch(drv, "getQuote")
    /\ UNCHANGED <<adj, approveCalls, quoter, invocations>>

\* mutant: the closure approves the amount of the first build
approveUpdate_Stale(updatedOutputAmount) ==
    generateApproveCallData(CurvePool, InputAmount)

\* update: (updatedOutputAmount) => ({callData: generateApproveCallData(...)})
approveUpdate(updatedOutputAmount) ==
    generateApproveCallData(CurvePool, updatedOutputAmount)

AfterUpdate(d) ==
    IF d.updatedApprove /\ d.updatedExchange = "done"
    THEN [d EXCEPT !.pc = "finalQuote"]
    ELSE d

\* the approve action's update closure is called with the output amount
UpdateApprove ==
    /\ drv.pc = "updating"
    /\ ~drv.updatedApprove
    /\ LET approve == approveUpdate(drv.outputAmount)
       IN  drv' = IF approve.threw
                  THEN Catch(drv, "getQuote")
                  ELSE AfterUpdate([drv EXCEPT !.approve = approve.value,
                                               !.updatedApprove = TRUE])
    /\ UNCHANGED <<adj, approveCalls, quoter, invocations>>

\* the exchange action's update closure is called with the output amount
UpdateExchange ==
    /\ drv.pc = "updating"
    /\ drv.updatedExchange = "no"
    /\ drv' = [drv EXCEPT !.updatedExchange = "pending"]
    /\ GenStart(CurvePool, CurveI, CurveJ, drv.outputAmount, UserAddress)
    /\ UNCHANGED <<adj, approveCalls>>

\* the promise of the exchange action's update closure has settled
ExchangeUpdated ==
    /\ drv.pc = "updating"
    /\ drv.updatedExchange = "pending"
    /\ invocations[2].pc = "settled"
    /\ drv' = IF invocations[2].out.threw
              THEN Catch(drv, "getQuote")
              ELSE AfterUpdate([drv EXCEPT !.exchange = invocations[2].out.value,
                                           !.updatedExchange = "done"])
    /\ UNCHANGED <<adj, approveCalls, quoter, invocations>>

\* client.getQuote resolves with the deposit
GetQuoteResolves ==
    /\ drv.pc = "finalQuote"
    /\ drv' = [drv EXCEPT !.quoteOk = TRUE, !.pc = "executeQuote"]
    /\ UNCHANGED <<adj, approveCalls, quoter, invocations>>

\* await client.executeQuote({walletClient, deposit: quote.deposit, ...})
ExecuteQuote ==
    /\ drv.pc = "executeQuote"
    /\ drv' = [drv EXCEPT !.executeQuoteCalled = TRUE, !.pc = "executing"]
    /\ UNCHANGED <<adj, approveCalls, quoter, invocations>>

ExecuteQuoteResolves ==
    /\ drv.pc = "executing"
    /\ drv' = [drv EXCEPT !.pc = "done"]
    /\ UNCHANGED <<adj, approveCalls, quoter, invocations>>

ExecuteQuoteRejects ==
    /\ drv.pc = "executing"
    /\ drv' = Catch(drv, "executeQuote")
    /\ UNCHANGED <<adj, approveCalls, quoter, invocations>>

Next ==
    \/ CheckEnv
    \/ CreateWallet
    \/ GetBalanceReturns
    \/ GetBalanceRejects
    \/ BuildMessage
    \/ QuoteReturns
    \/ QuoteFails
    \/ ExchangeBuilt
    \/ GetQuoteOutputAmount
    \/ GetQuoteRejects
    \/ UpdateApprove
    \/ UpdateExchange
    \/ ExchangeUpdated
    \/ GetQuoteResolves
    \/ ExecuteQuote
    \/ ExecuteQuoteResolves
    \/ ExecuteQuoteRejects

Spec == Init /\ [][Next]_vars


PreExecuteStages ==
    {"env", "wallet", "getBalance", "balance", "approveCalldata", "exchangeCalldata",
     "getQuote"}

\* C9: executeQuote is called only after PRIVATE_KEY and RPC_URL were found set,
\* the balance was found to be at least inputAmount, the exchange calldata was
\* built from an answered get_dy query and getQuote resolved; when any step
\* before it fails, executeQuote is not called and the error reaches the caller.
C9_ExecuteQuoteOnlyAfterChecks ==
    /\ drv.executeQuoteCalled =>
          /\ drv.privateKey # "unset"
          /\ drv.rpcUrlSet
          /\ drv.balance >= 100000000
          /\ Len(invocations) >= 1
          /\ invocations[1].pc = "settled"
          /\ ~invocations[1].out.threw
          /\ Answered(invocations[1])
          /\ IsCallOf(drv.exchange, ExchangeSelector, 5)
          /\ drv.quoteOk
    /\ (drv.pc = "failed") =>
          /\ drv.thrown
          /\ (drv.failedAt \in PreExecuteStages) <=> ~drv.executeQuoteCalled

C9_Witness ==
    /\ drv.pc = "done"
    /\ drv.executeQuoteCalled
    /\ drv.balance = 100000000

BothUpdated == drv.updatedApprove /\ drv.updatedExchange = "done"

NoneUpdated == ~drv.updatedApprove /\ drv.updatedExchange # "done"

\* C10: as first built, the approve action approves inputAmount to the Curve pool
\* and the exchange action spends _dx = inputAmount; once both update closures
\* have run with the output amount x, the approve action approves x to the Curve
\* pool and the exchange action spends _dx = x with a _min_dy taken from a new
\* get_dy(i, j, x) query; pool, i, j and receiver are the same before and after.
C10_ActionsAgreeOnAmount ==
    /\ (drv.pc \in {"getQuote", "updating"} /\ NoneUpdated) =>
          /\ DecodesToApprove(drv.approve, CurvePool, 100000000)
          /\ IsCallOf(drv.exchange, ExchangeSelector, 5)
          /\ DecodesToExchange(drv.exchange, 1, 0, 100000000,
                               MinDyOf(drv.exchange).value, UserAddress)
    /\ BothUpdated =>
          /\ DecodesToApprove(drv.approve, CurvePool, drv.outputAmount)
          /\ IsCallOf(drv.exchange, ExchangeSelector, 5)
          /\ DecodesToExchange(drv.exchange, 1, 0, drv.outputAmount,
                               MinDyOf(drv.exchange).value, UserAddress)
          /\ invocations[2].query \notin {0, invocations[1].query}
          /\ quoter[invocations[2].query].to = CurvePool
          /\ DecodesToGetDy(quoter[invocations[2].query].data, 1, 0, drv.outputAmount)
          /\ IsFloorQuotient(MinDyOf(drv.exchange).value,
                             quoter[invocations[2].query].value, 9997, 10000)

C10_Witness ==
    /\ drv.pc = "done"
    /\ BothUpdated
    /\ drv.outputAmount = 99990000
    /\ quoter[1].value = 99000000
    /\ quoter[2].value = 3333
    /\ DecodesToApprove(drv.approve, CurvePool, 99990000)
    /\ DecodesToExchange(drv.exchange, 1, 0, 99990000, 3332, UserAddress)

=============================================================================
